---- MODULE Spec2Model ----
(***************************************************************************)
(* Model of cms.py: the CMS hospital data pipeline.                        *)
(*                                                                         *)
(* main() fetches the catalog, filters the hospital datasets, extracts a   *)
(* list of CSV URLs and maps process_csv_reponse over it with a pool of    *)
(* PROCESSES worker processes.  Every invocation loads the change cache    *)
(* (metadata.json), issues a HEAD request, skips or downloads the file,    *)
(* rewrites its header row and saves the whole cache again.                *)
(* The workers share two things: the cache file and the data directory.    *)
(* Each statement that touches one of them, or the network, is one step.   *)
(***************************************************************************)
EXTENDS Naturals, Sequences, FiniteSets, TLC

\* --------------------------------------------------------------- bounds
\* Longest catalog of a run of the pipeline, hence longest URL list handed
\* to the pool.
MaxUrls == 2

\* Longest list of dataset records given to the filter and the extractor.
MaxRecords == 2

\* Longest column name given to the conversion.
MaxLen == 3

\* --------------------------------------------------------------- constants
\* PROCESSES = 4
PROCESSES == 4

\* A URL is its sequence of path segments (what file_url.split("/") yields).
Urls == { <<"x", "a.csv">>, <<"y", "a.csv">>, <<"x", "b.csv">> }

\* The whole URL taken as the name.
FileName_WholeUrl(file_url) == file_url

\* file_name = file_url.split("/")[-1]
FileName(file_url) == file_url[Len(file_url)]

FileNames == { FileName(u) : u \in Urls }

\* Values a remote may send in its Last-Modified header.
Stamps == { "t1", "t2" }

\* The headers of a HEAD response: no Last-Modified header, or one value.
Headers == { <<>> } \cup { <<t>> : t \in Stamps }

\* headers.get("Last-Modified", default)
HeaderGet(headers, default) == IF headers = <<>> THEN default ELSE headers[1]

\* The URL lists main() may extract: every sequence of at most MaxUrls URLs.
UrlLists == UNION { [1..n -> Urls] : n \in 0..MaxUrls }

\* --------------------------------------------------------------- dict
\* A Python dict is the sequence of its <<key, value>> items in insertion
\* order, which is also the order json.dump writes and json.load restores.
DictHas(d, k) == \E n \in 1..Len(d) : d[n][1] = k

\* d.get(k, default)
DictGet(d, k, default) ==
    IF DictHas(d, k)
    THEN d[CHOOSE n \in 1..Len(d) : d[n][1] = k][2]
    ELSE default

\* d[k] = v
DictSet(d, k, v) ==
    IF DictHas(d, k)
    THEN [n \in 1..Len(d) |-> IF d[n][1] = k THEN <<k, v>> ELSE d[n]]
    ELSE Append(d, <<k, v>>)

\* --------------------------------------------------------------- files
\* The size of the JSON text of a dict, counted in units: every item costs
\* its key and punctuation (2) and its value (0 when the string is empty,
\* 1 otherwise: every non-empty stamp has the same length).
RECURSIVE JsonSize(_)
JsonSize(d) ==
    IF d = <<>> THEN 0
    ELSE 2 + (IF d[1][2] = "" THEN 0 ELSE 1) + JsonSize(Tail(d))

\* The states of metadata.json.
NoCache      == [kind |-> "absent",  map |-> <<>>, size |-> 0]
EmptyCache   == [kind |-> "empty",   map |-> <<>>, size |-> 0]
JsonCache(d) == [kind |-> "json",    map |-> d,    size |-> JsonSize(d)]
Garbled(n)   == [kind |-> "garbled", map |-> <<>>, size |-> n]

\* What an invocation that has not loaded yet has seen of the cache file.
NotSeen == [kind |-> "none", map |-> <<>>, size |-> 0]

\* open(METADATA_FILE, "w"): creates the file or truncates it to no bytes.
OpenForWrite(file) == EmptyCache

\* json.dump(metadata, file) through a handle opened earlier: the text is
\* written from offset 0 over whatever the file holds by now.  Bytes another
\* writer put beyond the end of this text stay in the file.
DumpOver(file, d) ==
    IF file.size <= JsonSize(d) THEN JsonCache(d) ELSE Garbled(file.size)

\* load_metadata(): ok = FALSE stands for the exception json.load raises on
\* a file that does not hold one complete JSON value.
load_metadata(file) ==
    IF file.kind = "absent" THEN [ok |-> TRUE, value |-> <<>>]
    ELSE IF file.kind = "json" THEN [ok |-> TRUE, value |-> file.map]
    ELSE [ok |-> FALSE, value |-> <<>>]

\* The content of a local CSV file: which invocation downloaded it (0: an
\* earlier run) and whether its header row has been rewritten.
NoFile == [by |-> 0, present |-> FALSE, snake |-> FALSE]
Body(i) == [by |-> i, present |-> TRUE, snake |-> FALSE]

\* df.columns = [convert_to_snake_case(col) ...]; df.to_csv(path)
Rewritten(df) == [df EXCEPT !.snake = TRUE]

\* --------------------------------------------------------------- str
\* A Python str is the sequence of its characters.  The characters are the
\* ASCII ones and three others, named by their code points: U+0130 (capital
\* I with dot above), U+0307 (combining dot above) and U+2102 (double-struck
\* capital C).
UpperCase == << "A", "B", "C", "D", "E", "F", "G", "H", "I", "J", "K", "L", "M",
                "N", "O", "P", "Q", "R", "S", "T", "U", "V", "W", "X", "Y", "Z" >>

LowerCase == << "a", "b", "c", "d", "e", "f", "g", "h", "i", "j", "k", "l", "m",
                "n", "o", "p", "q", "r", "s", "t", "u", "v", "w", "x", "y", "z" >>

Digits == { "0", "1", "2", "3", "4", "5", "6", "7", "8", "9" }

\* The characters the pattern \w matches: letters, digits and the
\* underscore.  U+0130 and U+2102 are letters, U+0307 is a combining mark.
IsWord(c) ==
    \/ \E n \in 1..26 : c = UpperCase[n] \/ c = LowerCase[n]
    \/ c \in Digits \cup { "_", "U+0130", "U+2102" }

\* str.isupper() of one character.
IsUpper(c) ==
    \/ \E n \in 1..26 : c = UpperCase[n]
    \/ c \in { "U+0130", "U+2102" }

\* str.lower() of one character: U+0130 lowers to the two characters "i"
\* and U+0307, U+2102 has no lowercase form.
LowerChar(c) ==
    IF \E n \in 1..26 : c = UpperCase[n]
    THEN << LowerCase[CHOOSE n \in 1..26 : c = UpperCase[n]] >>
    ELSE IF c = "U+0130" THEN << "i", "U+0307" >>
    ELSE << c >>

\* s.lower()
RECURSIVE lower(_)
lower(s) == IF s = << >> THEN << >> ELSE LowerChar(Head(s)) \o lower(Tail(s))

\* s without its leading non-word characters.
RECURSIVE SkipNonWord(_)
SkipNonWord(s) ==
    IF s = << >> \/ IsWord(Head(s)) THEN s ELSE SkipNonWord(Tail(s))

\* re.sub(r'\W+', '_', s): every maximal run of non-word characters becomes
\* one underscore.
RECURSIVE re_sub(_)
re_sub(s) ==
    IF s = << >> THEN << >>
    ELSE IF IsWord(Head(s)) THEN << Head(s) >> \o re_sub(Tail(s))
    ELSE << "_" >> \o re_sub(SkipNonWord(s))

\* s.lstrip(c) and s.rstrip(c)
RECURSIVE lstrip(_, _)
lstrip(s, c) == IF s # << >> /\ Head(s) = c THEN lstrip(Tail(s), c) ELSE s

RECURSIVE rstrip(_, _)
rstrip(s, c) ==
    IF s # << >> /\ s[Len(s)] = c THEN rstrip(SubSeq(s, 1, Len(s) - 1), c)
    ELSE s

\* s.strip(c)
strip(s, c) == rstrip(lstrip(s, c), c)

\* convert_to_snake_case(column_name)
convert_to_snake_case(column_name) ==
    strip(lower(re_sub(column_name)), "_")

\* sep.join(strings)
RECURSIVE join(_, _)
join(sep, strings) ==
    IF strings = << >> THEN << >>
    ELSE IF Len(strings) = 1 THEN strings[1]
    ELSE strings[1] \o sep \o join(sep, Tail(strings))

\* sub in s
In(sub, s) ==
    \E n \in 1..(Len(s) + 1) :
        n + Len(sub) - 1 <= Len(s) /\ SubSeq(s, n, n + Len(sub) - 1) = sub

\* The literal "hospital" of line 55.
Hospital == << "h", "o", "s", "p", "i", "t", "a", "l" >>

\* --------------------------------------------------------------- catalog
\* A dataset record and a distribution entry are dicts of the fields they
\* carry.

\* The test made on the tags as they are written, without lowercasing.
IsHospital_CaseSensitive(dataset) ==
    In(Hospital, join(<< " " >>, DictGet(dataset, "theme", << >>)))

\* The test of line 55.
IsHospital(dataset) ==
    In(Hospital, lower(join(<< " " >>, DictGet(dataset, "theme", << >>))))

\* filter_hospital_datasets(metadata): the list comprehension of line 54-56.
RECURSIVE filter_hospital_datasets(_)
filter_hospital_datasets(datasets) ==
    IF datasets = << >> THEN << >>
    ELSE (IF IsHospital(Head(datasets)) THEN << Head(datasets) >> ELSE << >>)
         \o filter_hospital_datasets(Tail(datasets))

\* The test looking for a download URL in any entry of the list.
HasDownloadURL_AnyEntry(dataset) ==
    /\ DictHas(dataset, "distribution")
    /\ \E n \in 1..Len(DictGet(dataset, "distribution", << >>)) :
         DictHas(DictGet(dataset, "distribution", << >>)[n], "downloadURL")

\* The test of line 66.
HasDownloadURL(dataset) ==
    /\ DictHas(dataset, "distribution")
    /\ DictGet(dataset, "distribution", << >>) # << >>
    /\ DictHas(DictGet(dataset, "distribution", << >>)[1], "downloadURL")

\* dataset["distribution"][0]["downloadURL"]
DownloadURL(dataset) ==
    DictGet(DictGet(dataset, "distribution", << >>)[1], "downloadURL", << >>)

\* extract_csv_urls(datasets): the list comprehension of line 63-67.
RECURSIVE extract_csv_urls(_)
extract_csv_urls(datasets) ==
    IF datasets = << >> THEN << >>
    ELSE (IF HasDownloadURL(Head(datasets))
          THEN << DownloadURL(Head(datasets)) >> ELSE << >>)
         \o extract_csv_urls(Tail(datasets))

\* Theme tags, as strings.
HospitalCompare == << "H", "o", "s", "p", "i", "t", "a", "l", " ", "C", "o", "m", "p", "a", "r", "e" >>
Quality == << "Q", "u", "a", "l", "i", "t", "y" >>
NursingHome == << "N", "u", "r", "s", "i", "n", "g", " ", "H", "o", "m", "e" >>
Hos == << "h", "o", "s" >>
Pital == << "p", "i", "t", "a", "l" >>

Tags == { HospitalCompare, Quality, NursingHome, Hos, Pital }

\* The theme lists of a record: at most two tags.
Themes == UNION { [1..n -> Tags] : n \in 0..2 }

\* A distribution entry with a download URL, and two without.
Download(url) == << << "downloadURL", url >> >>
NoDownload == { << >>, << << "title", << "t" >> >> >> }

\* The distribution lists of a record: empty, one entry, or an entry without
\* a download URL before one that has it.
Distributions ==
    { << >> }
    \cup { << e >> : e \in NoDownload \cup { Download(u) : u \in Urls } }
    \cup { << e, Download(u) >> : e \in NoDownload, u \in Urls }

\* A record with both fields, and the records that lack one.
Record(theme, distribution) ==
    << << "theme", theme >>, << "distribution", distribution >> >>
NoTheme(distribution) == << << "distribution", distribution >> >>
NoDistribution(theme) == << << "theme", theme >> >>

\* The records of a run of the pipeline: a hospital dataset for every URL
\* and one dataset of another theme.
PipelineRecords ==
    { Record(<< Hospital >>, << Download(u) >>) : u \in Urls }
    \cup { Record(<< Hos, Pital >>, << Download(<< "x", "b.csv" >>) >>) }

\* What the catalog API serves in a run of the pipeline.
Catalogs == UNION { [1..n -> PipelineRecords] : n \in 0..MaxUrls }

\* The records given to the filter and the extractor alone: every theme
\* list with one distribution, every distribution list with one theme, and
\* the records that lack a field.
RichRecords ==
    { Record(t, << Download(<< "x", "a.csv" >>) >>) : t \in Themes }
    \cup { Record(<< HospitalCompare >>, d) : d \in Distributions }
    \cup { NoTheme(<< Download(<< "x", "a.csv" >>) >>) }
    \cup { NoDistribution(<< HospitalCompare >>) }

RichCatalogs == UNION { [1..n -> RichRecords] : n \in 0..MaxRecords }

\* The characters of the column names given to the conversion.
Chars == { "a", "B", "1", "_", " ", "-", "U+0130", "U+2102" }

ColumnNames == UNION { [1..n -> Chars] : n \in 0..MaxLen }

\* --------------------------------------------------------------- state
VARIABLES
    csv_urls,           \* main: the extracted URL list
    mainPc,             \* main: "start", "filter", "extract", "check", "pool",
                        \*       "done", "nourls", "raised"
    pc,                 \* per invocation: the statement it is at
    metadata,           \* per invocation: local variable metadata
    last_modified,      \* per invocation: local variable last_modified
    new_last_modified,  \* per invocation: local variable new_last_modified
    df,                 \* per invocation: the frame read_csv returned
    fail,               \* per invocation: the step that raised, or "none"
    io,                 \* per invocation: the I/O operations it performed
    saw,                \* per invocation: the cache file as its load met it
    cacheFile,          \* metadata.json
    disk,               \* the data directory: file name -> content
    cache0,             \* metadata.json as it was when this run began
    prev,               \* per invocation: how it ended in the run before
    catalog,            \* the dataset records the catalog API serves
    fetch,              \* main: "none", or how the catalog request ended
    main_metadata,      \* main: local variable metadata
    hospital_datasets,  \* main: local variable hospital_datasets
    cols                \* a column name and its successive conversions

vars == << csv_urls, mainPc, pc, metadata, last_modified, new_last_modified,
           df, fail, io, saw, cacheFile, disk, cache0, prev,
           catalog, fetch, main_metadata, hospital_datasets, cols >>

\* What the worker processes never touch.
mainVars == << catalog, fetch, main_metadata, hospital_datasets, cols >>

Tasks == DOMAIN csv_urls

Name(i) == FileName(csv_urls[i])

Terminal == { "done", "skipped", "failed", "error", "raised" }

Running == { i \in Tasks : pc[i] \notin Terminal \cup { "queued" } }

\* A local variable holding v in every invocation of the list.
All(v) == [i \in DOMAIN csv_urls |-> v]

\* How invocation i ended, as the next run remembers it: "done", "skipped",
\* "retry" (the parse or the rewrite raised) or "none" (anything else), with
\* the stamp its HEAD request read.
Outcome(i) ==
    [how |-> IF pc[i] \in { "done", "skipped" } THEN pc[i]
             ELSE IF pc[i] = "error" /\ fail[i] \in { "parse", "rewrite" }
                  THEN "retry" ELSE "none",
     stamp |-> IF \/ pc[i] \in { "done", "skipped" }
                  \/ pc[i] = "error" /\ fail[i] \in { "parse", "rewrite" }
               THEN new_last_modified[i] ELSE ""]

NoOutcome == [how |-> "none", stamp |-> ""]

\* The URL list main() extracts from what the catalog serves.
Extracted == extract_csv_urls(filter_hospital_datasets(catalog))

\* The program is started on a fresh working directory (no cache file, no
\* data file) against a catalog of the given set; no invocation exists
\* before the URL list is extracted.
Start(catalogs, columns) ==
    /\ catalog \in catalogs
    /\ cols \in columns
    /\ fetch = "none"
    /\ main_metadata = << >>
    /\ hospital_datasets = << >>
    /\ csv_urls = << >>
    /\ mainPc = "start"
    /\ pc = << >>
    /\ metadata = << >>
    /\ last_modified = << >>
    /\ new_last_modified = << >>
    /\ df = << >>
    /\ fail = << >>
    /\ io = << >>
    /\ saw = << >>
    /\ cacheFile = NoCache
    /\ disk = [f \in FileNames |-> NoFile]
    /\ cache0 = NoCache
    /\ prev = [i \in DOMAIN Extracted |-> NoOutcome]

\* A first run of the pipeline.
Init == Start(Catalogs, { << >> })

\* --------------------------------------------------------------- main
locals == << pc, metadata, last_modified, new_last_modified, df, fail, io, saw >>

\* fetch_dataset_metadata() returns the records of the response.
FetchOk ==
    /\ mainPc = "start"
    /\ fetch' = "ok"
    /\ main_metadata' = catalog
    /\ mainPc' = "filter"
    /\ UNCHANGED << catalog, hospital_datasets, cols, csv_urls, locals,
                    cacheFile, disk, cache0, prev >>

\* The request raises and main() is left by the exception.
FetchFail_Raise ==
    /\ mainPc = "start"
    /\ fetch' = "failed"
    /\ main_metadata' = << >>
    /\ mainPc' = "raised"
    /\ UNCHANGED << catalog, hospital_datasets, cols, csv_urls, locals,
                    cacheFile, disk, cache0, prev >>

\* requests.get or raise_for_status() raises a RequestException: line 47
\* logs it and fetch_dataset_metadata() returns [].
FetchFail ==
    /\ mainPc = "start"
    /\ fetch' = "failed"
    /\ main_metadata' = << >>
    /\ mainPc' = "filter"
    /\ UNCHANGED << catalog, hospital_datasets, cols, csv_urls, locals,
                    cacheFile, disk, cache0, prev >>

\* Line 138.
Filter ==
    /\ mainPc = "filter"
    /\ hospital_datasets' = filter_hospital_datasets(main_metadata)
    /\ mainPc' = "extract"
    /\ UNCHANGED << catalog, fetch, main_metadata, cols, csv_urls, locals,
                    cacheFile, disk, cache0, prev >>

\* Line 139: from here on there is one invocation to come for every
\* position of the list.
Extract ==
    /\ mainPc = "extract"
    /\ csv_urls' = extract_csv_urls(hospital_datasets)
    /\ mainPc' = "check"
    /\ pc' = [i \in DOMAIN csv_urls' |-> "queued"]
    /\ metadata' = [i \in DOMAIN csv_urls' |-> << >>]
    /\ last_modified' = [i \in DOMAIN csv_urls' |-> ""]
    /\ new_last_modified' = [i \in DOMAIN csv_urls' |-> ""]
    /\ df' = [i \in DOMAIN csv_urls' |-> NoFile]
    /\ fail' = [i \in DOMAIN csv_urls' |-> "none"]
    /\ io' = [i \in DOMAIN csv_urls' |-> {}]
    /\ saw' = [i \in DOMAIN csv_urls' |-> NotSeen]
    /\ UNCHANGED << catalog, fetch, main_metadata, hospital_datasets, cols,
                    cacheFile, disk, cache0, prev >>

\* main(): "if not csv_urls: ... return", else the pool is created.
MainStart ==
    /\ mainPc = "check"
    /\ mainPc' = IF csv_urls = <<>> THEN "nourls" ELSE "pool"
    /\ UNCHANGED << mainVars, csv_urls, locals, cacheFile, disk, cache0, prev >>

\* A map that returns as soon as the first invocation has finished.
MainJoin_First ==
    /\ mainPc = "pool"
    /\ \E i \in Tasks : pc[i] \in Terminal
    /\ mainPc' = IF \E i \in Tasks : pc[i] = "raised" THEN "raised" ELSE "done"
    /\ UNCHANGED << mainVars, csv_urls, locals, cacheFile, disk, cache0, prev >>

\* pool.map returns once every invocation has finished; it re-raises in
\* main() the exception of an invocation that raised.
MainJoin ==
    /\ mainPc = "pool"
    /\ \A i \in Tasks : pc[i] \in Terminal
    /\ mainPc' = IF \E i \in Tasks : pc[i] = "raised" THEN "raised" ELSE "done"
    /\ UNCHANGED << mainVars, csv_urls, locals, cacheFile, disk, cache0, prev >>

\* The program is run again on the same catalog.  What the last run left in
\* the data directory is from now on the work of an earlier run, and the
\* new run is told how every invocation of the last one ended.
NewRun ==
    /\ mainPc \in { "done", "nourls", "raised" }
    /\ mainPc' = "start"
    /\ fetch' = "none"
    /\ main_metadata' = << >>
    /\ hospital_datasets' = << >>
    /\ csv_urls' = << >>
    /\ pc' = << >>
    /\ metadata' = << >>
    /\ last_modified' = << >>
    /\ new_last_modified' = << >>
    /\ df' = << >>
    /\ fail' = << >>
    /\ io' = << >>
    /\ saw' = << >>
    /\ disk' = [f \in FileNames |-> [disk[f] EXCEPT !.by = 0]]
    /\ cache0' = cacheFile
    /\ prev' = IF fetch = "ok" THEN [i \in Tasks |-> Outcome(i)] ELSE prev
    /\ UNCHANGED << catalog, cols, cacheFile >>

\* --------------------------------------------------------------- process_csv_reponse
\* A step of invocation i that ends it with the exception logged or raised.
Abort(i, how, step) ==
    /\ pc' = [pc EXCEPT ![i] = how]
    /\ fail' = [fail EXCEPT ![i] = step]

\* A pool worker takes the next URL of the list (the task queue is first in,
\* first out, and at most PROCESSES invocations run at a time) and executes
\* lines 93-96: the cache is loaded outside the try block.
Load(i) ==
    /\ mainPc = "pool"
    /\ pc[i] = "queued"
    /\ \A j \in Tasks : j < i => pc[j] # "queued"
    /\ Cardinality(Running) < PROCESSES
    /\ load_metadata(cacheFile).ok
    /\ metadata' = [metadata EXCEPT ![i] = load_metadata(cacheFile).value]
    /\ last_modified' =
         [last_modified EXCEPT
            ![i] = DictGet(load_metadata(cacheFile).value, Name(i), "")]
    /\ saw' = [saw EXCEPT ![i] = cacheFile]
    /\ io' = [io EXCEPT ![i] = @ \cup { "load" }]
    /\ pc' = [pc EXCEPT ![i] = "head"]
    /\ UNCHANGED << mainVars, csv_urls, mainPc, new_last_modified, df, fail,
                    cacheFile, disk, cache0, prev >>

\* The same, on a cache file json.load cannot parse: the exception leaves
\* process_csv_reponse.
LoadRaise(i) ==
    /\ mainPc = "pool"
    /\ pc[i] = "queued"
    /\ \A j \in Tasks : j < i => pc[j] # "queued"
    /\ Cardinality(Running) < PROCESSES
    /\ ~ load_metadata(cacheFile).ok
    /\ saw' = [saw EXCEPT ![i] = cacheFile]
    /\ io' = [io EXCEPT ![i] = @ \cup { "load" }]
    /\ Abort(i, "raised", "load")
    /\ UNCHANGED << mainVars, csv_urls, mainPc, metadata, last_modified,
                    new_last_modified, df, cacheFile, disk, cache0, prev >>

\* The comparison made with the default instead of the cached stamp.
Unchanged_Default(old, new) == new = ""

\* The decision of line 103.
Unchanged(old, new) == old = new

\* requests.head(file_url) answers with headers; lines 100-107.
RequestsHead(i, headers) ==
    /\ pc[i] = "head"
    /\ new_last_modified' =
         [new_last_modified EXCEPT ![i] = HeaderGet(headers, "")]
    /\ io' = [io EXCEPT ![i] = @ \cup { "HEAD" }]
    /\ pc' = [pc EXCEPT
                ![i] = IF Unchanged(last_modified[i], HeaderGet(headers, ""))
                       THEN "skipped" ELSE "get"]
    /\ UNCHANGED << mainVars, csv_urls, mainPc, metadata, last_modified, df, fail, saw,
                    cacheFile, disk, cache0, prev >>

\* requests.head raises a RequestException: line 129 logs it.
RequestsHeadFail(i) ==
    /\ pc[i] = "head"
    /\ io' = [io EXCEPT ![i] = @ \cup { "HEAD" }]
    /\ Abort(i, "failed", "head")
    /\ UNCHANGED << mainVars, csv_urls, mainPc, metadata, last_modified,
                    new_last_modified, df, saw, cacheFile, disk, cache0, prev >>

\* requests.get answers with a success status.
RequestsGet(i) ==
    /\ pc[i] = "get"
    /\ io' = [io EXCEPT ![i] = @ \cup { "GET" }]
    /\ pc' = [pc EXCEPT ![i] = "write"]
    /\ UNCHANGED << mainVars, csv_urls, mainPc, metadata, last_modified,
                    new_last_modified, df, fail, saw, cacheFile, disk, cache0, prev >>

\* The status is checked only after the body has been written to the file.
RequestsGetFail_Late(i) ==
    /\ pc[i] = "get"
    /\ io' = [io EXCEPT ![i] = @ \cup { "GET" }]
    /\ disk' = [disk EXCEPT ![Name(i)] = Body(i)]
    /\ Abort(i, "failed", "get")
    /\ UNCHANGED << mainVars, csv_urls, mainPc, metadata, last_modified,
                    new_last_modified, df, saw, cacheFile, cache0, prev >>

\* requests.get raises, or raise_for_status() does on an error status.
RequestsGetFail(i) ==
    /\ pc[i] = "get"
    /\ io' = [io EXCEPT ![i] = @ \cup { "GET" }]
    /\ Abort(i, "failed", "get")
    /\ UNCHANGED << mainVars, csv_urls, mainPc, metadata, last_modified,
                    new_last_modified, df, saw, cacheFile, disk, cache0, prev >>

\* The local file is opened and written before the GET request has
\* returned.
WriteFile_Early(i) ==
    /\ pc[i] = "get"
    /\ disk' = [disk EXCEPT ![Name(i)] = Body(i)]
    /\ io' = [io EXCEPT ![i] = @ \cup { "wfile" }]
    /\ pc' = [pc EXCEPT ![i] = "parse"]
    /\ UNCHANGED << mainVars, csv_urls, mainPc, metadata, last_modified,
                    new_last_modified, df, fail, saw, cacheFile, cache0, prev >>

\* Lines 113-114: the downloaded bytes replace the local file.
WriteFile(i) ==
    /\ pc[i] = "write"
    /\ disk' = [disk EXCEPT ![Name(i)] = Body(i)]
    /\ io' = [io EXCEPT ![i] = @ \cup { "wfile" }]
    /\ pc' = [pc EXCEPT ![i] = "parse"]
    /\ UNCHANGED << mainVars, csv_urls, mainPc, metadata, last_modified,
                    new_last_modified, df, fail, saw, cacheFile, cache0, prev >>

\* Line 119: pd.read_csv parses what the local file holds now.
ReadCsv(i) ==
    /\ pc[i] = "parse"
    /\ df' = [df EXCEPT ![i] = disk[Name(i)]]
    /\ io' = [io EXCEPT ![i] = @ \cup { "rfile" }]
    /\ pc' = [pc EXCEPT ![i] = "rewrite"]
    /\ UNCHANGED << mainVars, csv_urls, mainPc, metadata, last_modified,
                    new_last_modified, fail, saw, cacheFile, disk, cache0, prev >>

\* pd.read_csv raises, but the cache entry has been advanced before the
\* parse.
ReadCsvFail_CacheFirst(i) ==
    /\ pc[i] = "parse"
    /\ io' = [io EXCEPT ![i] = @ \cup { "rfile" }]
    /\ cacheFile' =
         JsonCache(DictSet(metadata[i], Name(i), new_last_modified[i]))
    /\ Abort(i, "error", "parse")
    /\ UNCHANGED << mainVars, csv_urls, mainPc, metadata, last_modified,
                    new_last_modified, df, saw, disk, cache0, prev >>

\* pd.read_csv raises on a malformed file: line 131 logs it.
ReadCsvFail(i) ==
    /\ pc[i] = "parse"
    /\ io' = [io EXCEPT ![i] = @ \cup { "rfile" }]
    /\ Abort(i, "error", "parse")
    /\ UNCHANGED << mainVars, csv_urls, mainPc, metadata, last_modified,
                    new_last_modified, df, saw, cacheFile, disk, cache0, prev >>

\* Lines 120-121: the columns are renamed and the frame is written back.
ToCsv(i) ==
    /\ pc[i] = "rewrite"
    /\ disk' = [disk EXCEPT ![Name(i)] = Rewritten(df[i])]
    /\ io' = [io EXCEPT ![i] = @ \cup { "tocsv" }]
    /\ pc' = [pc EXCEPT ![i] = "save"]
    /\ UNCHANGED << mainVars, csv_urls, mainPc, metadata, last_modified,
                    new_last_modified, df, fail, saw, cacheFile, cache0, prev >>

\* The renaming raises (a column label that is no string): line 131.
RewriteFail(i) ==
    /\ pc[i] = "rewrite"
    /\ Abort(i, "error", "rewrite")
    /\ UNCHANGED << mainVars, csv_urls, mainPc, metadata, last_modified,
                    new_last_modified, df, io, saw, cacheFile, disk, cache0, prev >>

\* A save that reads the cache file again and sets its entry in that map.
SaveOpen_Merge(i) ==
    /\ pc[i] = "save"
    /\ metadata' =
         [metadata EXCEPT
            ![i] = DictSet(load_metadata(cacheFile).value, Name(i),
                           new_last_modified[i])]
    /\ cacheFile' = OpenForWrite(cacheFile)
    /\ io' = [io EXCEPT ![i] = @ \cup { "wcache" }]
    /\ pc' = [pc EXCEPT ![i] = "dump"]
    /\ UNCHANGED << mainVars, csv_urls, mainPc, last_modified, new_last_modified, df,
                    fail, saw, disk, cache0, prev >>

\* Line 124 and the open() of save_metadata: the entry is set in the local
\* dict and the cache file is truncated.
SaveOpen(i) ==
    /\ pc[i] = "save"
    /\ metadata' =
         [metadata EXCEPT ![i] = DictSet(@, Name(i), new_last_modified[i])]
    /\ cacheFile' = OpenForWrite(cacheFile)
    /\ io' = [io EXCEPT ![i] = @ \cup { "wcache" }]
    /\ pc' = [pc EXCEPT ![i] = "dump"]
    /\ UNCHANGED << mainVars, csv_urls, mainPc, last_modified, new_last_modified, df,
                    fail, saw, disk, cache0, prev >>

\* open() raises (the file cannot be opened for writing): line 131.
SaveFail(i) ==
    /\ pc[i] = "save"
    /\ metadata' =
         [metadata EXCEPT ![i] = DictSet(@, Name(i), new_last_modified[i])]
    /\ Abort(i, "error", "save")
    /\ UNCHANGED << mainVars, csv_urls, mainPc, last_modified, new_last_modified, df,
                    io, saw, cacheFile, disk, cache0, prev >>

\* json.dump and the close of the file: the whole dict is written.
SaveDump(i) ==
    /\ pc[i] = "dump"
    /\ cacheFile' = DumpOver(cacheFile, metadata[i])
    /\ pc' = [pc EXCEPT ![i] = "done"]
    /\ UNCHANGED << mainVars, csv_urls, mainPc, metadata, last_modified,
                    new_last_modified, df, fail, io, saw, disk, cache0, prev >>

\* The steps of invocation i.
Process(i) ==
    \/ Load(i)
    \/ LoadRaise(i)
    \/ \E headers \in Headers : RequestsHead(i, headers)
    \/ RequestsHeadFail(i)
    \/ RequestsGet(i)
    \/ RequestsGetFail(i)
    \/ WriteFile(i)
    \/ ReadCsv(i)
    \/ ReadCsvFail(i)
    \/ ToCsv(i)
    \/ RewriteFail(i)
    \/ SaveOpen(i)
    \/ SaveFail(i)
    \/ SaveDump(i)

\* One run of main().
Run ==
    \/ FetchOk
    \/ FetchFail
    \/ Filter
    \/ Extract
    \/ MainStart
    \/ MainJoin
    \/ \E i \in Tasks : Process(i)

\* One run of the program.
Next == Run

Spec == Init /\ [][Next]_vars

\* Successive runs of the program, each on what the last one left.
NextRuns == Run \/ NewRun

SpecRuns == Init /\ [][NextRuns]_vars

\* Every started step of main() and of a worker is eventually completed:
\* the operating system schedules every worker process and every request
\* is eventually answered or fails.  Nothing obliges a user to run the
\* program again.
Fairness ==
    /\ WF_vars(FetchOk \/ FetchFail)
    /\ WF_vars(Filter)
    /\ WF_vars(Extract)
    /\ WF_vars(MainStart)
    /\ WF_vars(MainJoin)
    /\ \A i \in 1..MaxUrls : WF_vars(i \in Tasks /\ Process(i))

SpecFair == Spec /\ Fairness

\* The filter and the extractor of main() applied to lists of records of
\* every shape.
InitMain == Start(RichCatalogs, { << >> })

NextMain == FetchOk \/ FetchFail \/ Filter \/ Extract

SpecMain == InitMain /\ [][NextMain]_vars

\* Line 120 applied to a column name, and again to what it returned.
Convert ==
    /\ cols # << >>
    /\ Len(cols) < 3
    /\ cols' = Append(cols, convert_to_snake_case(cols[Len(cols)]))
    /\ UNCHANGED << catalog, fetch, main_metadata, hospital_datasets,
                    csv_urls, mainPc, locals, cacheFile, disk, cache0, prev >>

InitNames == Start({ << >> }, { << s >> : s \in ColumnNames })

NextNames == Convert

SpecNames == InitNames /\ [][NextNames]_vars

\* --------------------------------------------------------------- claims
\* The entry of file name f in a cache file: <<stamp>>, or <<>> when the
\* file holds no mapping or the mapping has no such key.
Entry(file, f) ==
    IF file.kind = "json" /\ DictHas(file.map, f)
    THEN << DictGet(file.map, f, "") >>
    ELSE << >>

\* The cache file holds a complete mapping, or does not exist.
Readable(file) == file.kind \in { "absent", "json" }

\* The HEAD request of invocation i was answered.
Answered(i) == "HEAD" \in io[i] /\ fail[i] # "head"

\* Invocation i failed in the CSV parse or in the column rewrite.
RewriteFailed(i) == pc[i] = "error" /\ fail[i] \in { "parse", "rewrite" }

\* Some invocation of this run for file name f has opened the cache file
\* for writing.
Saved(f) == \E k \in Tasks : Name(k) = f /\ "wcache" \in io[k]

StampUnchanged(i) == Answered(i) /\ last_modified[i] = new_last_modified[i]

\* C2: when the stamp read by the HEAD request equals the cached value, the
\* invocation is skipped having issued only its load and its HEAD request
\* (no GET, no write of the local file, no write of the cache file), and
\* neither its load step nor its skip step changes the cache file or the
\* data directory.
C2_UnchangedIsSkipped ==
    [][ \A i \in Tasks :
          /\ StampUnchanged(i)' =>
               /\ pc'[i] = "skipped"
               /\ io'[i] = { "load", "HEAD" }
          /\ ( \/ pc[i] = "queued" /\ pc'[i] # "queued"
               \/ pc[i] = "head" /\ StampUnchanged(i)' )
             => cacheFile' = cacheFile /\ disk' = disk ]_vars

\* C2 witness: an invocation found a stamp cached for its file name, read
\* the same stamp from the remote and was skipped.
C2_Witness ==
    \E i \in Tasks :
        /\ pc[i] = "skipped"
        /\ DictHas(metadata[i], Name(i))
        /\ new_last_modified[i] \in Stamps
        /\ DictGet(metadata[i], Name(i), "") = new_last_modified[i]

\* C3: the step that completes an invocation leaves the cache file holding
\* a mapping that maps the file name to the stamp the invocation read, and
\* the local file holding the invocation's own download, rewritten; the
\* cache is written only after the rewrite.
C3_DoneMeansCacheAndFileAgree ==
    [][ \A i \in Tasks :
          (pc[i] # "done" /\ pc'[i] = "done") =>
             /\ Entry(cacheFile', Name(i)) = << new_last_modified[i] >>
             /\ disk'[Name(i)] = [by |-> i, present |-> TRUE, snake |-> TRUE]
             /\ "tocsv" \in io'[i] ]_vars

\* C4: the mapping a save leaves in the truncated cache file is the one its
\* invocation loaded, with the invocation's own entry set: whatever entry
\* of another file name was saved since that load is not in it.
C4_SaveWritesLoadedMap ==
    [][ \A i \in Tasks :
          (pc[i] = "dump" /\ pc'[i] = "done" /\ cacheFile'.kind = "json") =>
             \A f \in FileNames :
                Entry(cacheFile', f) =
                   IF f = Name(i) THEN << new_last_modified[i] >>
                   ELSE Entry(saw[i], f) ]_vars

\* C4 witness: the run is over, two invocations for different file names
\* both completed, and the persisted mapping lacks the entry of one.
C4_Witness ==
    /\ mainPc = "done"
    /\ cacheFile.kind = "json"
    /\ \E i, j \in Tasks :
         /\ Name(i) # Name(j)
         /\ pc[i] = "done" /\ pc[j] = "done"
         /\ DictHas(cacheFile.map, Name(i))
         /\ ~ DictHas(cacheFile.map, Name(j))

\* C5: an invocation whose HEAD request failed has issued nothing but its
\* load and that request, one whose GET request failed nothing but its
\* load and the two requests (no file and no cache written); the failing
\* step changes neither the cache file nor the data directory nor any other
\* invocation, and main() goes on.
C5_NetworkFailureAborts ==
    [][ \A i \in Tasks :
          pc'[i] = "failed" =>
             /\ fail'[i] \in { "head", "get" }
             /\ fail'[i] = "head" => io'[i] = { "load", "HEAD" }
             /\ fail'[i] = "get" => io'[i] = { "load", "HEAD", "GET" }
             /\ pc[i] # "failed" =>
                  /\ cacheFile' = cacheFile
                  /\ disk' = disk
                  /\ mainPc' = mainPc
                  /\ \A j \in Tasks \ {i} :
                       /\ pc'[j] = pc[j]
                       /\ metadata'[j] = metadata[j]
                       /\ io'[j] = io[j] ]_vars

\* C5 witness: one invocation failed in its GET request and another one of
\* the same run completed.
C5_Witness ==
    \E i, j \in Tasks :
        /\ pc[i] = "failed" /\ fail[i] = "get"
        /\ pc[j] = "done"

\* C6: no invocation ends by raising out of process_csv_reponse, and
\* main() does not end by raising out of pool.map.
C6_NoErrorPropagates ==
    /\ mainPc # "raised"
    /\ \A i \in Tasks : pc[i] # "raised"

\* Every invocation of the last run was processed successfully (completed
\* or skipped as not modified).
LastRunSucceeded == \A k \in Tasks : prev[k].how \in { "done", "skipped" }

\* The remotes are the same as in the last run: equal URLs had equal stamps
\* then, and every stamp read in this run is the one read then.
RemotesUnchanged ==
    /\ \A j, k \in Tasks :
         csv_urls[j] = csv_urls[k] => prev[j].stamp = prev[k].stamp
    /\ \A j \in Tasks :
         Answered(j) => new_last_modified[j] = prev[j].stamp

\* The plain case: no two URLs of the list share a file name, and every
\* remote sent a Last-Modified header in the last run.
PlainList ==
    /\ \A j, k \in Tasks : j # k => Name(j) # Name(k)
    /\ \A j \in Tasks : prev[j].stamp \in Stamps

\* C7: after a run in which every file was processed successfully, a run
\* against unchanged remotes downloads nothing: every invocation whose HEAD
\* request is answered is skipped.  Stated for the plain case, where no
\* file name is shared and no header is missing.
C7_NoDownloadWhenUnchanged ==
    (PlainList /\ LastRunSucceeded /\ RemotesUnchanged) =>
        \A i \in Tasks : Answered(i) => pc[i] = "skipped"

\* C8: every load met the cache file absent or holding a complete mapping,
\* never truncated or partly overwritten by a save of another worker.
C8_LoadSeesWholeCache ==
    Readable(cache0) =>
        \A i \in Tasks : saw[i].kind \in { "none", "absent", "json" }

\* C9: a load returns the persisted mapping when the file holds one and the
\* empty mapping otherwise, and never raises.
C9_LoadNeverRaises ==
    \A i \in Tasks :
        /\ fail[i] # "load"
        /\ pc[i] = "head" =>
             metadata[i] = IF saw[i].kind = "json" THEN saw[i].map ELSE << >>

\* main() has left pool.map, by return or by exception.
Joined == mainPc \in { "done", "raised" }

C11_FetchFailureEndsRun ==
    /\ [](fetch = "failed" =>
            /\ main_metadata = << >>
            /\ hospital_datasets = << >>
            /\ csv_urls = << >>
            /\ mainPc \in { "filter", "extract", "check", "nourls" })
    /\ [][ fetch' = "failed" => (cacheFile' = cacheFile /\ disk' = disk) ]_vars

\* C11 witness: after a run that downloaded a file and saved the cache, a
\* run whose catalog request failed has ended at the "no URLs" return,
\* although the catalog lists a hospital dataset.
C11_Witness ==
    /\ fetch = "failed"
    /\ mainPc = "nourls"
    /\ Extracted # << >>
    /\ cacheFile.kind = "json"
    /\ \E f \in FileNames : disk[f].present

\* The theme tags of a record, joined by spaces, hold the letters of
\* "hospital" in a row, in either case.
ThemeMentionsHospital(dataset) ==
    \E item \in 1..Len(dataset) :
        /\ dataset[item][1] = "theme"
        /\ LET s == join(<< " " >>, dataset[item][2])
           IN  \E n \in 1..Len(s) :
                   /\ n + 7 <= Len(s)
                   /\ \A k \in 1..8 : LowerChar(s[n + k - 1]) = << Hospital[k] >>

\* The n-th element, in increasing order, of a set of positions.
Nth(positions, n) ==
    CHOOSE p \in positions : Cardinality({ q \in positions : q <= p }) = n

\* C12: the filter returns the records of its input whose joined,
\* lowercased theme tags contain "hospital", each once and in input order;
\* a record without a theme field is not among them.
C12_FilterKeepsHospitalRecords ==
    mainPc \in { "extract", "check" } =>
        LET kept == { n \in DOMAIN main_metadata :
                        ThemeMentionsHospital(main_metadata[n]) }
        IN  /\ Len(hospital_datasets) = Cardinality(kept)
            /\ \A k \in DOMAIN hospital_datasets :
                 hospital_datasets[k] = main_metadata[Nth(kept, k)]

\* C12 witness: of two records the filter rejected the first, whose theme
\* is "Nursing Home", and kept the second, whose themes are "Hospital
\* Compare" and "Quality".
C12_Witness ==
    /\ mainPc = "extract"
    /\ Len(main_metadata) = 2
    /\ DictGet(main_metadata[1], "theme", << >>) = << NursingHome >>
    /\ DictGet(main_metadata[2], "theme", << >>) = << HospitalCompare, Quality >>
    /\ hospital_datasets = << main_metadata[2] >>

\* The download URLs of the first distribution entry of a record: one URL
\* when the record has a distribution field whose list is not empty and
\* whose first entry has a downloadURL field, none otherwise.
FirstDownloadURLs(dataset) ==
    { dataset[item][2][1][field][2] :
        << item, field >> \in
            { pos \in (1..Len(dataset)) \X (1..2) :
                /\ dataset[pos[1]][1] = "distribution"
                /\ Len(dataset[pos[1]][2]) >= 1
                /\ pos[2] <= Len(dataset[pos[1]][2][1])
                /\ dataset[pos[1]][2][1][pos[2]][1] = "downloadURL" } }

\* C13: the extractor emits, in input order, the download URL of the first
\* distribution entry of every record that has one and nothing for any
\* other record; equal URLs are all kept.
C13_ExtractEmitsFirstDownloadURL ==
    mainPc = "check" =>
        LET kept == { n \in DOMAIN hospital_datasets :
                        FirstDownloadURLs(hospital_datasets[n]) # {} }
        IN  /\ Len(csv_urls) = Cardinality(kept)
            /\ \A k \in DOMAIN csv_urls :
                 csv_urls[k] \in FirstDownloadURLs(hospital_datasets[Nth(kept, k)])

\* C13 witness: two different records with the same download URL gave a
\* list naming that URL twice.
C13_Witness ==
    /\ mainPc = "check"
    /\ Len(hospital_datasets) = 2
    /\ hospital_datasets[1] # hospital_datasets[2]
    /\ Len(csv_urls) = 2
    /\ csv_urls[1] = csv_urls[2]

\* C14: converting a converted column name returns it unchanged.
C14_ConvertIsIdempotent ==
    Len(cols) = 3 => cols[3] = cols[2]

\* C15: a converted column name holds word characters only and no uppercase
\* letter, neither starts nor ends with an underscore, and is the input
\* with every run of non-word characters replaced by one underscore, then
\* lowercased, then stripped of underscores at both ends.
C15_ConvertedNameIsSnakeCase ==
    Len(cols) >= 2 =>
        /\ \A n \in 1..Len(cols[2]) :
             IsWord(cols[2][n]) /\ ~ IsUpper(cols[2][n])
        /\ cols[2] # << >> =>
             (cols[2][1] # "_" /\ cols[2][Len(cols[2])] # "_")
        /\ cols[2] = strip(lower(re_sub(cols[1])), "_")

\* The final path segment of a URL.
LastSegment(url) == url[Len(url)]

\* Invocation j, on another URL with the same final path segment as the URL
\* of invocation i, loaded the cache file as the completed invocation i
\* had saved it.
LoadedAfter(i, j) ==
    /\ csv_urls[i] # csv_urls[j]
    /\ LastSegment(csv_urls[i]) = LastSegment(csv_urls[j])
    /\ pc[i] = "done"
    /\ saw[j].kind = "json"
    /\ saw[j].map = metadata[i]

\* C16: let B be processed after A was processed successfully, A and B
\* being distinct URLs with the same final path segment.  When the stamp B's
\* HEAD request reads equals the one A cached, B is skipped without a GET
\* and without a write of the local file; when it differs B goes on to the
\* GET, its write replaces A's local file and its save replaces A's cache
\* entry.
C16_SameNameSharesKeyAndPath ==
    [][ \A i, j \in Tasks :
          LoadedAfter(i, j) =>
            /\ (pc[j] = "head" /\ pc'[j] \notin { "head", "failed" }) =>
                 IF new_last_modified'[j] = new_last_modified[i]
                 THEN pc'[j] = "skipped" /\ io'[j] = { "load", "HEAD" }
                 ELSE pc'[j] = "get"
            /\ (pc[j] = "write" /\ pc'[j] = "parse") =>
                 \A f \in DOMAIN disk : disk[f].by = i => disk'[f] = Body(j)
            /\ (pc[j] = "dump" /\ pc'[j] = "done" /\ cacheFile'.kind = "json") =>
                 DictGet(cacheFile'.map, LastSegment(csv_urls[i]), "")
                    = new_last_modified[j] ]_vars

\* C16 witness: B was skipped on the stamp A had cached, and the local file
\* is the one A downloaded.
C16_Witness ==
    \E i, j \in Tasks :
        /\ LoadedAfter(i, j)
        /\ pc[j] = "skipped"
        /\ new_last_modified[j] \in Stamps
        /\ disk[LastSegment(csv_urls[j])].by = i

\* C17: an invocation whose file name had no entry in the cache it loaded
\* is not skipped, whatever the HEAD response carried.
C17_NoEntryNeverSkipped ==
    \A i \in Tasks :
        (Answered(i) /\ ~ DictHas(load_metadata(saw[i]).value, Name(i)))
            => pc[i] # "skipped"

\* C18: a step changes a local file only if it is a step of an invocation
\* for that file name whose GET request has returned without failing, and
\* an invocation whose HEAD or GET request failed has written no local
\* file.
C18_WritesOwnFileAfterGet ==
    /\ [][ \A f \in FileNames :
             disk'[f] # disk[f] =>
                \E i \in Tasks :
                    /\ pc'[i] # pc[i]
                    /\ Name(i) = f
                    /\ "GET" \in io[i]
                    /\ fail'[i] \notin { "head", "get" } ]_vars
    /\ [](\A i \in Tasks :
            pc[i] = "failed" => io[i] \cap { "wfile", "tocsv" } = {})

\* C18 witness: the GET request of an invocation failed and the local file
\* of its name is still the one another invocation downloaded and rewrote.
C18_Witness ==
    \E i, j \in Tasks :
        /\ i # j
        /\ Name(i) = Name(j)
        /\ pc[j] = "failed" /\ fail[j] = "get"
        /\ disk[Name(j)] = [by |-> i, present |-> TRUE, snake |-> TRUE]

\* C19: the content an invocation parsed is the content this invocation
\* downloaded.
C19_ParsesOwnDownload ==
    \A i \in Tasks : "rfile" \in io[i] /\ pc[i] # "error" => df[i] = Body(i)

====
